---- MODULE Spec2Model ----
(***************************************************************************)
(* Model of mirascope/doc_workflow.py: DocumentWorkflowAgent.run, the      *)
(* bounded draft -> validate -> revise loop, and the three prompt builders *)
(* create_outline, validate_outline and generate_document.                 *)
(*                                                                         *)
(* A run is a coroutine: it executes atomically from one await to the      *)
(* next.  Each action below is one such stretch of run.  The Generation    *)
(* Port (the decorated openai call) is the environment: it answers an      *)
(* outstanding call with a value of the response model, or it fails.       *)
(*                                                                         *)
(* Text is modelled as a sequence of tokens; an f-string is the            *)
(* concatenation of its literal parts and the renderings of its fields.    *)
(***************************************************************************)
EXTENDS Integers, Sequences, FiniteSets, TLC

\* ------------------------------------------------------------------------
\* Bounds and sample values
\* ------------------------------------------------------------------------

\* largest max_retries an agent is constructed with
MaxRetriesBound == 3

\* largest max_retries when two runs are interleaved
MaxRetriesConc == 2

\* Field(default=3) of DocumentWorkflowAgent.max_retries
DefaultMaxRetries == 3

Runs == {1, 2}

Agents == {"A1", "A2"}

\* max_retries is an unconstrained int: zero and negative values construct
RetryChoices == (-1 .. MaxRetriesBound) \cup {DefaultMaxRetries}

RetryChoicesConc == 1 .. MaxRetriesConc

Topics == {"AI and security", "Previous work"}

RequirementsTexts == {"five sections"}

CriteriaTexts == {"balanced coverage"}

\* python None
None == [none |-> TRUE]

\* a call that has not returned yet
Pending == [pending |-> TRUE]

\* values of List[OutlineSection] the port may return (section titles)
Outlines == {[sections |-> <<"Intro">>], [sections |-> <<"Intro", "Risks">>]}

MissingChoices == {<<>>, <<"examples">>}

SuggestionChoices == {<<>>, <<"add case study", "cite sources">>}

\* values of OutlineCriteria the port may return
Verdicts ==
    [meets_requirements : BOOLEAN,
     missing_elements : MissingChoices,
     suggestions : SuggestionChoices]

\* values of DocumentContent the port may return
Documents ==
    {[content |-> "doc A", sections_covered |-> <<"Intro">>],
     [content |-> "doc B", sections_covered |-> <<"Intro", "Risks">>]}

\* exceptions the port may raise
PortErrors == {"APIConnectionError", "ValidationError"}

\* what the Generation Port may answer
Port ==
    [outlines |-> Outlines, verdicts |-> Verdicts,
     documents |-> Documents, errors |-> PortErrors]

\* a port with fewer answers, for two interleaved runs
PortConc ==
    [outlines |-> Outlines,
     verdicts |-> {v \in Verdicts :
                     /\ v.missing_elements # <<>>
                     /\ (v.suggestions = <<>>) = v.meets_requirements},
     documents |-> {d \in Documents : d.content = "doc A"},
     errors |-> {"APIConnectionError"}]

\* ------------------------------------------------------------------------
\* Rendering of values inside f-strings
\* ------------------------------------------------------------------------

RECURSIVE Quoted(_)
\* repr of the items of a list of str, comma separated
Quoted(l) ==
    IF l = <<>> THEN <<>>
    ELSE IF Len(l) = 1 THEN <<"'", l[1], "'">>
    ELSE <<"'", l[1], "'", ", ">> \o Quoted(Tail(l))

\* str() of a python list of str: ['a', 'b']
ListStr(l) == <<"[">> \o Quoted(l) \o <<"]">>

\* str() of a python bool
BoolStr(b) == IF b THEN "True" ELSE "False"

\* str() of an OutlineCriteria (pydantic field=value rendering)
ValidationStr(v) ==
    IF v = None THEN <<"None">>
    ELSE <<"meets_requirements=", BoolStr(v.meets_requirements)>>
         \o <<" missing_elements=">> \o ListStr(v.missing_elements)
         \o <<" suggestions=">> \o ListStr(v.suggestions)

\* str() of a List[OutlineSection]
OutlineStr(o) ==
    IF o = None THEN <<"None">>
    ELSE <<"[OutlineSection ">> \o Quoted(o.sections) \o <<"]">>

\* mutant of Truthy: a verdict with nothing to report counts as false
Truthy_NonEmpty(v) ==
    v # None /\ (v.missing_elements # <<>> \/ v.suggestions # <<>>)

\* truth value of the local variable validation: None is false, a model
\* instance is true whatever its fields
Truthy(v) == v # None

\* ------------------------------------------------------------------------
\* The prompt builders
\* ------------------------------------------------------------------------

FeedbackClause == "\nPrevious feedback to address: "

SuggestionsClause == "\nPlease incorporate these suggestions:\n"

\* body of create_outline
CreateOutlinePrompt(t, q, feedback) ==
    <<"Create a structured document outline for: ", t,
      "Requirements: ", q>>
    \o (IF feedback # <<>> THEN <<FeedbackClause>> \o feedback ELSE <<>>)

\* body of validate_outline
ValidateOutlinePrompt(o, c) ==
    <<"Evaluate this outline against the following criteria:", c,
      "Outline to evaluate:">> \o OutlineStr(o)

RECURSIVE Bullets(_)
\* the for loop of generate_document: "- " + suggestion, no separator
Bullets(l) ==
    IF l = <<>> THEN <<>> ELSE <<"- ", l[1]>> \o Bullets(Tail(l))

\* mutant of GenerateDocumentPrompt: the suggestions of an accepting verdict
\* are ignored
GenerateDocumentPrompt_RejectedOnly(o, v) ==
    <<"Write a complete document following this outline:">>
    \o OutlineStr(o)
    \o <<"Ensure each section addresses all key points listed.">>
    \o (IF Truthy(v) /\ ~v.meets_requirements /\ v.suggestions # <<>>
        THEN <<SuggestionsClause>> \o Bullets(v.suggestions)
        ELSE <<>>)

\* body of generate_document
GenerateDocumentPrompt(o, v) ==
    <<"Write a complete document following this outline:">>
    \o OutlineStr(o)
    \o <<"Ensure each section addresses all key points listed.">>
    \o (IF Truthy(v) /\ v.suggestions # <<>>
        THEN <<SuggestionsClause>> \o Bullets(v.suggestions)
        ELSE <<>>)

\* ------------------------------------------------------------------------
\* Pieces of run
\* ------------------------------------------------------------------------

\* mutant of Feedback: the suggestions are left out
Feedback_MissingOnly(v) ==
    IF Truthy(v) THEN ListStr(v.missing_elements) ELSE <<>>

\* the feedback expression of run
Feedback(v) ==
    IF Truthy(v)
    THEN ListStr(v.missing_elements) \o <<"\n">> \o ListStr(v.suggestions)
    ELSE <<>>

\* the while condition
LoopCond(att, maxr) == att < maxr

\* mutant of Exhausted: the test misses the budget by one
Exhausted_Late(att, maxr) == att > maxr

\* the exhaustion test after attempt += 1
Exhausted(att, maxr) == att = maxr

\* the text returned when the budget is exhausted
FailureText(v) ==
    <<"Failed to create satisfactory outline. Last validation: ">>
    \o ValidationStr(v)

\* a call record: the operation, the attempt it belongs to, its arguments,
\* the instructions its body builds, and what the port answered
CreateOutlineCall(att, t, q, feedback) ==
    [op |-> "create_outline", attempt |-> att,
     args |-> [topic |-> t, requirements |-> q, feedback |-> feedback],
     prompt |-> CreateOutlinePrompt(t, q, feedback), ret |-> Pending]

ValidateOutlineCall(att, o, c) ==
    [op |-> "validate_outline", attempt |-> att,
     args |-> [outline |-> o, criteria |-> c],
     prompt |-> ValidateOutlinePrompt(o, c), ret |-> Pending]

GenerateDocumentCall(att, o, v) ==
    [op |-> "generate_document", attempt |-> att,
     args |-> [outline |-> o, validation |-> v],
     prompt |-> GenerateDocumentPrompt(o, v), ret |-> Pending]

\* the print calls of run
AttemptNotice(att) ==
    [line |-> "Attempt", n |-> att + 1,
     verb |-> IF att = 0 THEN "Creating" ELSE "Revising"]

OutlineNotice(att, o) ==
    [line |-> "outline created",
     verb |-> IF att = 0 THEN "Initial" ELSE "Revised",
     text |-> OutlineStr(o)]

ValidatingNotice == [line |-> "Validating outline..."]

ResultsNotice(v) == [line |-> "Validation results", text |-> ValidationStr(v)]

MeetsNotice == [line |-> "Outline meets all requirements!"]

FailedNotice(maxr) == [line |-> "Failed to create satisfactory outline", n |-> maxr]

GeneratingNotice == [line |-> "Generating final document..."]

ErrorNotice(e) == [line |-> "Error in workflow", text |-> <<e>>]

\* mutant of GenerateStep: generate_document is called without the verdict
GenerateStep_NoVerdict(att, o, v) ==
    [pc |-> "generate_document", attempt |-> att,
     issued |-> <<GenerateDocumentCall(att, o, None)>>,
     notices |-> <<GeneratingNotice>>, result |-> None]

\* step 3 up to its await: announce, then call generate_document
GenerateStep(att, o, v) ==
    [pc |-> "generate_document", attempt |-> att,
     issued |-> <<GenerateDocumentCall(att, o, v)>>,
     notices |-> <<GeneratingNotice>>, result |-> None]

\* mutant of DraftStep: topic and requirements are passed in the wrong order
DraftStep_Swapped(att, v, t, q) ==
    [pc |-> "create_outline", attempt |-> att,
     issued |-> <<CreateOutlineCall(att, q, t, Feedback(v))>>,
     notices |-> <<AttemptNotice(att)>>, result |-> None]

\* mutant of DraftStep: two drafts are requested at once
DraftStep_Speculative(att, v, t, q) ==
    [pc |-> "create_outline", attempt |-> att,
     issued |-> <<CreateOutlineCall(att, t, q, Feedback(v)),
                  CreateOutlineCall(att, t, q, Feedback(v))>>,
     notices |-> <<AttemptNotice(att)>>, result |-> None]

\* step 1 up to its await: announce, build feedback, call create_outline
DraftStep(att, v, t, q) ==
    [pc |-> "create_outline", attempt |-> att,
     issued |-> <<CreateOutlineCall(att, t, q, Feedback(v))>>,
     notices |-> <<AttemptNotice(att)>>, result |-> None]

\* from the while test to the next await
LoopHead(maxr, att, o, v, t, q) ==
    IF LoopCond(att, maxr)
    THEN DraftStep(att, v, t, q)
    ELSE GenerateStep(att, o, v)

\* mutant of AfterValidate: attempt is not incremented after a rejection
AfterValidate_NoIncrement(maxr, att, o, v, t, q) ==
    LET seen == <<ResultsNotice(v)>> IN
    IF v.meets_requirements
    THEN LET g == GenerateStep(att, o, v) IN
         [g EXCEPT !.notices = seen \o <<MeetsNotice>> \o @]
    ELSE IF Exhausted(att, maxr)
         THEN [pc |-> "returned", attempt |-> att, issued |-> <<>>,
               notices |-> seen \o <<FailedNotice(maxr)>>,
               result |-> FailureText(v)]
         ELSE LET h == LoopHead(maxr, att, o, v, t, q) IN
              [h EXCEPT !.notices = seen \o @]

\* mutant of AfterValidate: the budget is counted before the verdict is read
AfterValidate_CountFirst(maxr, att, o, v, t, q) ==
    LET seen == <<ResultsNotice(v)>> IN
    IF Exhausted(att + 1, maxr)
    THEN [pc |-> "returned", attempt |-> att + 1, issued |-> <<>>,
          notices |-> seen \o <<FailedNotice(maxr)>>,
          result |-> FailureText(v)]
    ELSE IF v.meets_requirements
         THEN LET g == GenerateStep(att, o, v) IN
              [g EXCEPT !.notices = seen \o <<MeetsNotice>> \o @]
         ELSE LET h == LoopHead(maxr, att + 1, o, v, t, q) IN
              [h EXCEPT !.notices = seen \o @]

\* from the return of validate_outline to the next await or to the return
AfterValidate(maxr, att, o, v, t, q) ==
    LET seen == <<ResultsNotice(v)>> IN
    IF v.meets_requirements
    THEN LET g == GenerateStep(att, o, v) IN
         [g EXCEPT !.notices = seen \o <<MeetsNotice>> \o @]
    ELSE IF Exhausted(att + 1, maxr)
         THEN [pc |-> "returned", attempt |-> att + 1, issued |-> <<>>,
               notices |-> seen \o <<FailedNotice(maxr)>>,
               result |-> FailureText(v)]
         ELSE LET h == LoopHead(maxr, att + 1, o, v, t, q) IN
              [h EXCEPT !.notices = seen \o @]

\* ------------------------------------------------------------------------
\* State
\* ------------------------------------------------------------------------

VARIABLES
    max_retries,    \* agent -> its max_retries field
    messages,       \* agent -> its messages field
    agent,          \* run -> the agent it is invoked on (self)
    pc,             \* run -> where the coroutine is suspended
    topic,          \* run -> argument of run
    requirements,   \* run -> argument of run
    criteria,       \* run -> argument of run
    attempt,        \* run -> local variable
    outline,        \* run -> local variable
    validation,     \* run -> local variable
    calls,          \* run -> the Generation Port calls it made, in order
    notices,        \* run -> what it printed, in order
    result,         \* run -> the value run returned
    error           \* run -> the exception run raised

vars == <<max_retries, messages, agent, pc, topic, requirements, criteria,
          attempt, outline, validation, calls, notices, result, error>>

agentVars == <<max_retries, messages, agent>>

argVars == <<topic, requirements, criteria>>

Awaiting == {"create_outline", "validate_outline", "generate_document"}

\* the state before run is invoked on the runs in rs
InitWith(rs, retries) ==
    /\ max_retries \in [Agents -> retries]
    /\ messages = [a \in Agents |-> <<>>]
    /\ agent \in [Runs -> Agents]
    /\ pc = [r \in Runs |-> IF r \in rs THEN "idle" ELSE "absent"]
    /\ topic = [r \in Runs |-> ""]
    /\ requirements = [r \in Runs |-> ""]
    /\ criteria = [r \in Runs |-> ""]
    /\ attempt = [r \in Runs |-> 0]
    /\ outline = [r \in Runs |-> None]
    /\ validation = [r \in Runs |-> None]
    /\ calls = [r \in Runs |-> <<>>]
    /\ notices = [r \in Runs |-> <<>>]
    /\ result = [r \in Runs |-> None]
    /\ error = [r \in Runs |-> None]

\* one run, on agent A1; A2 is constructed with the defaults and not used
Init ==
    /\ InitWith({1}, RetryChoices)
    /\ agent = [r \in Runs |-> "A1"]
    /\ max_retries["A2"] = DefaultMaxRetries

\* two runs, on the same agent or on two agents
InitConc ==
    /\ InitWith(Runs, RetryChoicesConc)
    /\ agent[1] = "A1"

\* the last call gets its answer; run has no call out when it is invoked
Answered(cs, val) ==
    IF cs = <<>> THEN cs ELSE [cs EXCEPT ![Len(cs)].ret = val]

\* mutant of Resume: attempt is kept on self, so the runs of one agent share it
Resume_OnSelf(r, val, k) ==
    /\ pc' = [pc EXCEPT ![r] = k.pc]
    /\ attempt' = [x \in Runs |->
                      IF agent[x] = agent[r] THEN k.attempt ELSE attempt[x]]
    /\ calls' = [calls EXCEPT ![r] = Answered(@, val) \o k.issued]
    /\ notices' = [notices EXCEPT ![r] = @ \o k.notices]
    /\ result' = [result EXCEPT ![r] = k.result]

\* run r, answered val, runs on to the next await or to its return: the
\* locals of r and what r did are updated as k says
Resume(r, val, k) ==
    /\ pc' = [pc EXCEPT ![r] = k.pc]
    /\ attempt' = [attempt EXCEPT ![r] = k.attempt]
    /\ calls' = [calls EXCEPT ![r] = Answered(@, val) \o k.issued]
    /\ notices' = [notices EXCEPT ![r] = @ \o k.notices]
    /\ result' = [result EXCEPT ![r] = k.result]

\* ------------------------------------------------------------------------
\* Actions
\* ------------------------------------------------------------------------

\* run is invoked: locals are initialised and the loop is entered
Invoke(r) ==
    /\ pc[r] = "idle"
    /\ \E t \in Topics, q \in RequirementsTexts, c \in CriteriaTexts :
        /\ topic' = [topic EXCEPT ![r] = t]
        /\ requirements' = [requirements EXCEPT ![r] = q]
        /\ criteria' = [criteria EXCEPT ![r] = c]
        /\ Resume(r, None, LoopHead(max_retries[agent[r]], 0, None, None, t, q))
    /\ UNCHANGED <<outline, validation, error, agentVars>>

\* mutant of CreateOutlineReturns: a revision keeps the first outline
CreateOutlineReturns_KeepFirst(r, p) ==
    /\ pc[r] = "create_outline"
    /\ \E o \in p.outlines :
        LET kept == IF outline[r] = None THEN o ELSE outline[r] IN
        /\ outline' = [outline EXCEPT ![r] = kept]
        /\ pc' = [pc EXCEPT ![r] = "validate_outline"]
        /\ calls' = [calls EXCEPT ![r] =
              Append(Answered(@, o),
                     ValidateOutlineCall(attempt[r], kept, criteria[r]))]
        /\ notices' = [notices EXCEPT ![r] =
              @ \o <<OutlineNotice(attempt[r], kept), ValidatingNotice>>]
    /\ UNCHANGED <<attempt, validation, result, error, argVars, agentVars>>

\* create_outline returns o: announce it and call validate_outline
CreateOutlineReturns(r, p) ==
    /\ pc[r] = "create_outline"
    /\ \E o \in p.outlines :
        /\ outline' = [outline EXCEPT ![r] = o]
        /\ pc' = [pc EXCEPT ![r] = "validate_outline"]
        /\ calls' = [calls EXCEPT ![r] =
              Append(Answered(@, o),
                     ValidateOutlineCall(attempt[r], o, criteria[r]))]
        /\ notices' = [notices EXCEPT ![r] =
              @ \o <<OutlineNotice(attempt[r], o), ValidatingNotice>>]
    /\ UNCHANGED <<attempt, validation, result, error, argVars, agentVars>>

\* mutant of ValidateOutlineReturns: a rejected outline is validated again
\* without a new draft
ValidateOutlineReturns_Patch(r, p) ==
    /\ pc[r] = "validate_outline"
    /\ \E v \in p.verdicts :
        LET k == AfterValidate(max_retries[agent[r]], attempt[r],
                               outline[r], v, topic[r], requirements[r])
            again == <<ValidateOutlineCall(k.attempt, outline[r], criteria[r])>>
        IN
        /\ validation' = [validation EXCEPT ![r] = v]
        /\ Resume(r, v, IF k.pc = "create_outline"
                        THEN [k EXCEPT !.pc = "validate_outline",
                                       !.issued = again]
                        ELSE k)
    /\ UNCHANGED <<outline, error, argVars, agentVars>>

\* mutant of ValidateOutlineReturns: the lists of the verdicts are accumulated
\* from one attempt to the next
ValidateOutlineReturns_Accumulate(r, p) ==
    /\ pc[r] = "validate_outline"
    /\ \E v \in p.verdicts :
        LET acc == IF validation[r] = None THEN v
                   ELSE [v EXCEPT
                           !.missing_elements =
                               validation[r].missing_elements \o @,
                           !.suggestions = validation[r].suggestions \o @]
        IN
        /\ validation' = [validation EXCEPT ![r] = acc]
        /\ Resume(r, v, AfterValidate(max_retries[agent[r]], attempt[r],
                                     outline[r], acc, topic[r],
                                     requirements[r]))
    /\ UNCHANGED <<outline, error, argVars, agentVars>>

\* validate_outline returns v: accept, give up, or revise
ValidateOutlineReturns(r, p) ==
    /\ pc[r] = "validate_outline"
    /\ \E v \in p.verdicts :
        /\ validation' = [validation EXCEPT ![r] = v]
        /\ Resume(r, v, AfterValidate(max_retries[agent[r]], attempt[r],
                                     outline[r], v, topic[r], requirements[r]))
    /\ UNCHANGED <<outline, error, argVars, agentVars>>

\* generate_document returns d: run returns d.content
GenerateDocumentReturns(r, p) ==
    /\ pc[r] = "generate_document"
    /\ \E d \in p.documents :
        /\ calls' = [calls EXCEPT ![r] = Answered(@, d)]
        /\ result' = [result EXCEPT ![r] = <<d.content>>]
    /\ pc' = [pc EXCEPT ![r] = "returned"]
    /\ UNCHANGED <<attempt, outline, validation, notices, error,
                   argVars, agentVars>>

\* mutant of PortFails: the except clause returns the error as a text
PortFails_Swallow(r, p) ==
    /\ pc[r] \in Awaiting
    /\ \E e \in p.errors :
        /\ calls' = [calls EXCEPT ![r] = Answered(@, [error |-> e])]
        /\ notices' = [notices EXCEPT ![r] = Append(@, ErrorNotice(e))]
        /\ result' = [result EXCEPT ![r] = <<"Error in workflow: ", e>>]
    /\ pc' = [pc EXCEPT ![r] = "returned"]
    /\ UNCHANGED <<attempt, outline, validation, error, argVars, agentVars>>

\* mutant of PortFails: the error leaves run without the except clause
PortFails_Silent(r, p) ==
    /\ pc[r] \in Awaiting
    /\ \E e \in p.errors :
        /\ calls' = [calls EXCEPT ![r] = Answered(@, [error |-> e])]
        /\ error' = [error EXCEPT ![r] = [error |-> e]]
    /\ pc' = [pc EXCEPT ![r] = "raised"]
    /\ UNCHANGED <<attempt, outline, validation, result, notices,
                   argVars, agentVars>>

\* the outstanding call raises e: the except clause prints and re-raises
PortFails(r, p) ==
    /\ pc[r] \in Awaiting
    /\ \E e \in p.errors :
        /\ calls' = [calls EXCEPT ![r] = Answered(@, [error |-> e])]
        /\ notices' = [notices EXCEPT ![r] = Append(@, ErrorNotice(e))]
        /\ error' = [error EXCEPT ![r] = [error |-> e]]
    /\ pc' = [pc EXCEPT ![r] = "raised"]
    /\ UNCHANGED <<attempt, outline, validation, result, argVars, agentVars>>

Next ==
    \E r \in Runs :
        \/ Invoke(r)
        \/ CreateOutlineReturns(r, Port)
        \/ ValidateOutlineReturns(r, Port)
        \/ GenerateDocumentReturns(r, Port)
        \/ PortFails(r, Port)

NextConc ==
    \E r \in Runs :
        \/ Invoke(r)
        \/ CreateOutlineReturns(r, PortConc)
        \/ ValidateOutlineReturns(r, PortConc)
        \/ GenerateDocumentReturns(r, PortConc)
        \/ PortFails(r, PortConc)

Spec == Init /\ [][Next]_vars

\* the port answers the outstanding call of run r, with a value or an error
PortAnswers(r) ==
    \/ CreateOutlineReturns(r, Port)
    \/ ValidateOutlineReturns(r, Port)
    \/ GenerateDocumentReturns(r, Port)
    \/ PortFails(r, Port)

\* every port call eventually returns or fails
SpecFair == Spec /\ \A r \in Runs : WF_vars(PortAnswers(r))

SpecConc == InitConc /\ [][NextConc]_vars

\* ------------------------------------------------------------------------
\* run executed alone, as a function of the answers of the port
\* ------------------------------------------------------------------------

\* run from its invocation to its first await
SoloStart(maxr, t, q) ==
    LET k == LoopHead(maxr, 0, None, None, t, q) IN
    [pc |-> k.pc, attempt |-> k.attempt, outline |-> None,
     validation |-> None, calls |-> k.issued, notices |-> k.notices,
     result |-> k.result, error |-> None]

\* run, suspended in state s, gets the answer resp and runs to its next await
SoloStep(s, resp, maxr, t, q, c) ==
    IF s.pc \notin Awaiting THEN s
    ELSE IF "error" \in DOMAIN resp
    THEN [s EXCEPT !.pc = "raised",
                   !.calls = Answered(@, resp),
                   !.notices = Append(@, ErrorNotice(resp.error)),
                   !.error = resp]
    ELSE IF s.pc = "create_outline"
    THEN [s EXCEPT !.pc = "validate_outline",
                   !.outline = resp,
                   !.calls = Append(Answered(@, resp),
                                    ValidateOutlineCall(s.attempt, resp, c)),
                   !.notices = @ \o <<OutlineNotice(s.attempt, resp),
                                      ValidatingNotice>>]
    ELSE IF s.pc = "validate_outline"
    THEN LET k == AfterValidate(maxr, s.attempt, s.outline, resp, t, q) IN
         [pc |-> k.pc, attempt |-> k.attempt, outline |-> s.outline,
          validation |-> resp, calls |-> Answered(s.calls, resp) \o k.issued,
          notices |-> s.notices \o k.notices, result |-> k.result,
          error |-> None]
    ELSE [s EXCEPT !.pc = "returned",
                   !.calls = Answered(@, resp),
                   !.result = <<resp.content>>]

RECURSIVE SoloRun(_, _, _, _, _)
\* run executed alone when the port gives the answers resps, in order
SoloRun(resps, maxr, t, q, c) ==
    IF resps = <<>> THEN SoloStart(maxr, t, q)
    ELSE SoloStep(SoloRun(SubSeq(resps, 1, Len(resps) - 1), maxr, t, q, c),
                  resps[Len(resps)], maxr, t, q, c)

\* ------------------------------------------------------------------------
\* Reading the call log
\* ------------------------------------------------------------------------

CreateCalls(r) == SelectSeq(calls[r], LAMBDA c : c.op = "create_outline")

ValidateCalls(r) == SelectSeq(calls[r], LAMBDA c : c.op = "validate_outline")

GenerateCalls(r) == SelectSeq(calls[r], LAMBDA c : c.op = "generate_document")

Failed(c) == "error" \in DOMAIN c.ret

Returned(c) == c.ret # Pending /\ ~Failed(c)

Accepting(c) ==
    c.op = "validate_outline" /\ Returned(c) /\ c.ret.meets_requirements

Rejecting(c) ==
    c.op = "validate_outline" /\ Returned(c) /\ ~c.ret.meets_requirements

NoFailure(r) == \A i \in 1 .. Len(calls[r]) : ~Failed(calls[r][i])

MaxRetriesOf(r) == max_retries[agent[r]]

Started(r) == pc[r] \notin {"idle", "absent"}

\* run r has returned text
Returns(r, text) == pc[r] = "returned" /\ result[r] = text

Tokens(text) == {text[i] : i \in 1 .. Len(text)}

\* s occurs in t as a contiguous piece
Occurs(s, t) ==
    \E i \in 0 .. (Len(t) - Len(s)) : SubSeq(t, i + 1, i + Len(s)) = s

\* ------------------------------------------------------------------------
\* Claims
\* ------------------------------------------------------------------------

\* C1 (acceptance termination): with max_retries >= 1 and no port failure,
\* once the verdict of attempt k is the first accepting one, run has made
\* exactly k+1 create_outline and k+1 validate_outline calls, then exactly
\* one generate_document call, which is its last call, and when run has
\* returned its result is the content of the document that call returned.
C1_AcceptanceTermination ==
    \A r \in Runs :
        LET V == ValidateCalls(r)
            G == GenerateCalls(r)
        IN  \A j \in 1 .. Len(V) :
                ( /\ MaxRetriesOf(r) >= 1
                  /\ NoFailure(r)
                  /\ Accepting(V[j])
                  /\ \A i \in 1 .. (j - 1) : ~Accepting(V[i]) )
                =>
                ( /\ V[j].attempt = j - 1
                  /\ j - 1 < MaxRetriesOf(r)
                  /\ Len(CreateCalls(r)) = j
                  /\ Len(V) = j
                  /\ Len(G) = 1
                  /\ calls[r][Len(calls[r])] = G[1]
                  /\ Len(calls[r]) = 2 * j + 1
                  /\ pc[r] \in {"generate_document", "returned"}
                  /\ pc[r] = "generate_document" <=> G[1].ret = Pending
                  /\ pc[r] = "returned" =>
                        /\ G[1].ret \in Documents
                        /\ result[r] = <<G[1].ret.content>>
                        /\ error[r] = None )

\* C1 witness: a run accepted at its second attempt has returned "doc B"
C1_Witness ==
    /\ pc[1] = "returned"
    /\ NoFailure(1)
    /\ Len(ValidateCalls(1)) = 2
    /\ Rejecting(ValidateCalls(1)[1])
    /\ Accepting(ValidateCalls(1)[2])
    /\ result[1] = <<"doc B">>

\* C2 (budget exhaustion): with max_retries >= 1 and no port failure, while
\* every verdict rejects run returns exactly when max_retries verdicts have
\* arrived; it has then made max_retries create_outline and max_retries
\* validate_outline calls and no generate_document call, has raised
\* nothing, and its result is the failure text with the rendering of the
\* missing_elements and of the suggestions of the verdict of attempt
\* max_retries - 1.
C2_BudgetExhaustion ==
    \A r \in Runs :
        LET V == ValidateCalls(r)
            m == MaxRetriesOf(r)
        IN  ( /\ Started(r)
              /\ m >= 1
              /\ NoFailure(r)
              /\ \A i \in 1 .. Len(V) : ~Accepting(V[i]) )
            =>
            ( /\ Len(V) <= m
              /\ Len(GenerateCalls(r)) = 0
              /\ pc[r] = "returned" <=> (Len(V) = m /\ Rejecting(V[m]))
              /\ pc[r] = "returned" =>
                    /\ Len(CreateCalls(r)) = m
                    /\ V[m].attempt = m - 1
                    /\ error[r] = None
                    /\ result[r][1] =
                         "Failed to create satisfactory outline. Last validation: "
                    /\ Occurs(<<" missing_elements=">>
                                \o ListStr(V[m].ret.missing_elements), result[r])
                    /\ Occurs(<<" suggestions=">>
                                \o ListStr(V[m].ret.suggestions), result[r])
                    /\ Tokens(V[m].ret.missing_elements) \subseteq Tokens(result[r])
                    /\ Tokens(V[m].ret.suggestions) \subseteq Tokens(result[r]) )

\* C2 witness: a run with max_retries = 2 returned the failure text after
\* two rejections, the last one with missing elements and suggestions
C2_Witness ==
    /\ pc[1] = "returned"
    /\ MaxRetriesOf(1) = 2
    /\ Len(ValidateCalls(1)) = 2
    /\ Len(GenerateCalls(1)) = 0
    /\ ValidateCalls(1)[1].ret.missing_elements = <<>>
    /\ ValidateCalls(1)[2].ret.missing_elements = <<"examples">>
    /\ ValidateCalls(1)[2].ret.suggestions # <<>>
    /\ "examples" \in Tokens(result[1])

\* C3 (port failure propagation): a failed call is the last call of its run
\* (it is not retried and no call follows it), the run has raised exactly the
\* error of that call and has returned no text; a run raises only so.
C3_FailurePropagation ==
    \A r \in Runs :
        /\ \A i \in 1 .. Len(calls[r]) :
              Failed(calls[r][i]) =>
                  /\ i = Len(calls[r])
                  /\ pc[r] = "raised"
                  /\ error[r] = calls[r][i].ret
                  /\ result[r] = None
        /\ pc[r] = "raised" =>
              /\ calls[r] # <<>>
              /\ Failed(calls[r][Len(calls[r])])
        /\ pc[r] # "raised" => error[r] = None

\* C3 witness: validate_outline of the second attempt failed and run raised
C3_Witness ==
    /\ pc[1] = "raised"
    /\ Len(calls[1]) = 4
    /\ calls[1][4].op = "validate_outline"
    /\ error[1] = [error |-> "ValidationError"]

\* C4 (feedback threading): the create_outline call of attempt 0 gets the
\* empty feedback and its instructions have no feedback clause; the
\* instructions of the create_outline call of an attempt i > 0 contain every
\* missing element and every suggestion of the verdict of attempt i-1.
C4_FeedbackThreading ==
    \A r \in Runs :
        LET C == CreateCalls(r)
            V == ValidateCalls(r)
        IN  \A j \in 1 .. Len(C) :
                /\ C[j].attempt = j - 1
                /\ j = 1 =>
                      /\ C[j].args.feedback = <<>>
                      /\ FeedbackClause \notin Tokens(C[j].prompt)
                /\ j > 1 =>
                      /\ Returned(V[j - 1])
                      /\ V[j - 1].attempt = j - 2
                      /\ Tokens(V[j - 1].ret.missing_elements)
                            \subseteq Tokens(C[j].prompt)
                      /\ Tokens(V[j - 1].ret.suggestions)
                            \subseteq Tokens(C[j].prompt)

\* C4 witness: the third draft is requested after a second verdict with a
\* missing element and suggestions, the first verdict having had none
C4_Witness ==
    /\ Len(CreateCalls(1)) = 3
    /\ ValidateCalls(1)[1].ret.missing_elements = <<>>
    /\ ValidateCalls(1)[1].ret.suggestions = <<>>
    /\ ValidateCalls(1)[2].ret.missing_elements = <<"examples">>
    /\ ValidateCalls(1)[2].ret.suggestions = <<"add case study", "cite sources">>
    /\ "cite sources" \in Tokens(CreateCalls(1)[3].prompt)

\* C5 (no outline mutation): the validate_outline call of attempt i is made
\* with exactly the outline the create_outline call of attempt i returned.
C5_OutlineReplaced ==
    \A r \in Runs :
        LET C == CreateCalls(r)
            V == ValidateCalls(r)
        IN  /\ Len(V) <= Len(C)
            /\ \A j \in 1 .. Len(V) :
                  /\ V[j].attempt = j - 1
                  /\ C[j].attempt = j - 1
                  /\ Returned(C[j])
                  /\ V[j].args.outline = C[j].ret

\* C5 witness: the second attempt validates an outline other than the first
C5_Witness ==
    /\ Len(ValidateCalls(1)) = 2
    /\ ValidateCalls(1)[1].args.outline = [sections |-> <<"Intro">>]
    /\ CreateCalls(1)[2].ret = [sections |-> <<"Intro", "Risks">>]
    /\ ValidateCalls(1)[2].args.outline = [sections |-> <<"Intro", "Risks">>]

\* C6 (accepted artifacts reach generation): when attempt k was accepted,
\* every generate_document call is made with the outline create_outline
\* returned at attempt k and with the accepting verdict validate_outline
\* returned at attempt k.
C6_AcceptedArtifacts ==
    \A r \in Runs :
        LET C == CreateCalls(r)
            V == ValidateCalls(r)
            G == GenerateCalls(r)
        IN  \A j \in 1 .. Len(V) : \A n \in 1 .. Len(G) :
                Accepting(V[j]) =>
                    /\ V[j].attempt = j - 1
                    /\ C[j].attempt = j - 1
                    /\ G[n].attempt = j - 1
                    /\ G[n].args.outline = C[j].ret
                    /\ G[n].args.validation = V[j].ret

\* C6 witness: generate_document is called after the second attempt was
\* accepted, with an outline and a verdict that differ from the first ones
C6_Witness ==
    /\ Len(GenerateCalls(1)) = 1
    /\ Len(ValidateCalls(1)) = 2
    /\ CreateCalls(1)[1].ret # CreateCalls(1)[2].ret
    /\ GenerateCalls(1)[1].args.outline = CreateCalls(1)[2].ret
    /\ GenerateCalls(1)[1].args.validation.suggestions # <<>>
    /\ ValidateCalls(1)[1].ret.suggestions = <<>>

\* C7 (generation only on the accept path): with max_retries >= 1 a run
\* makes at most one generate_document call; when it has made one, the
\* verdict returned last is accepting; and when the budget is exhausted
\* (attempt = max_retries) it has made none.
C7_GenerateOnlyAccepted ==
    \A r \in Runs :
        LET V == ValidateCalls(r)
            G == GenerateCalls(r)
        IN  MaxRetriesOf(r) >= 1 =>
                /\ Len(G) <= 1
                /\ Len(G) = 1 =>
                      /\ Len(V) >= 1
                      /\ Accepting(V[Len(V)])
                      /\ validation[r] = V[Len(V)].ret
                /\ attempt[r] = MaxRetriesOf(r) =>
                      /\ Len(G) = 0
                      /\ pc[r] = "returned"

\* C7 witness: generate_document is outstanding after two rejections and an
\* acceptance at the third attempt
C7_Witness ==
    /\ pc[1] = "generate_document"
    /\ Len(ValidateCalls(1)) = 3
    /\ attempt[1] = 2
    /\ validation[1].meets_requirements

\* C8 (retry budget accounting): with max_retries >= 1, attempt stays within
\* 0 .. max_retries and equals the number of rejecting verdicts received;
\* every create_outline call is made with attempt < max_retries, so there
\* are at most max_retries of them; and when the verdict of attempt
\* max_retries - 1 accepts, generate_document is called and the failure
\* text is not returned.
C8_BudgetAccounting ==
    \A r \in Runs :
        LET C == CreateCalls(r)
            V == ValidateCalls(r)
            m == MaxRetriesOf(r)
        IN  m >= 1 =>
                /\ attempt[r] \in 0 .. m
                /\ attempt[r] = Cardinality({j \in 1 .. Len(V) : Rejecting(V[j])})
                /\ \A j \in 1 .. Len(C) : C[j].attempt < m
                /\ Len(C) <= m
                /\ (Len(V) = m /\ Accepting(V[m])) =>
                      /\ Len(GenerateCalls(r)) = 1
                      /\ attempt[r] = m - 1
                      /\ ~Returns(r, FailureText(V[m].ret))

\* C8 witness: with max_retries = 3 the third attempt is accepted
C8_Witness ==
    /\ MaxRetriesOf(1) = 3
    /\ Len(ValidateCalls(1)) = 3
    /\ Accepting(ValidateCalls(1)[3])
    /\ attempt[1] = 2
    /\ pc[1] = "returned"

\* C9 (stage ordering): the calls of a run are create_outline at the odd
\* places and validate_outline, of the same attempt, at the even places
\* before the first generate_document; a generate_document call is the last
\* call; and a run that returned without a port failure made its
\* create_outline and validate_outline calls in pairs.
C9_StageOrdering ==
    \A r \in Runs :
        LET n == Len(calls[r])
            paired == n - Len(GenerateCalls(r))
        IN  /\ \A i \in 1 .. n :
                  IF calls[r][i].op = "generate_document"
                  THEN i = n
                  ELSE /\ i % 2 = 1 => calls[r][i].op = "create_outline"
                       /\ i % 2 = 0 =>
                             /\ calls[r][i].op = "validate_outline"
                             /\ calls[r][i - 1].op = "create_outline"
                             /\ calls[r][i - 1].attempt = calls[r][i].attempt
            /\ Len(GenerateCalls(r)) <= 1
            /\ pc[r] = "returned" => paired % 2 = 0
            /\ pc[r] = "validate_outline" => paired % 2 = 0
            /\ pc[r] = "create_outline" => paired % 2 = 1

\* C9 witness: create, validate, create, validate, generate, then returned
C9_Witness ==
    /\ pc[1] = "returned"
    /\ Len(calls[1]) = 5
    /\ calls[1][3].op = "create_outline"
    /\ calls[1][4].op = "validate_outline"
    /\ calls[1][5].op = "generate_document"

\* the answers run r has received so far, in order
Responses(r) ==
    LET got == SelectSeq(calls[r], LAMBDA c : c.ret # Pending) IN
    [i \in 1 .. Len(got) |-> got[i].ret]

\* C10 (isolation of concurrent runs): however two runs are interleaved at
\* their awaits, on one agent or on two, each run is at every moment where
\* run executed alone with the same arguments, the same max_retries and the
\* same answers of the port would be: same calls with the same arguments,
\* same attempt, outline and validation, same result or error; and a run
\* that is not invoked yet has its initial state.
C10_Isolation ==
    \A r \in Runs :
        IF Started(r)
        THEN LET s == SoloRun(Responses(r), MaxRetriesOf(r), topic[r],
                              requirements[r], criteria[r])
             IN  /\ calls[r] = s.calls
                 /\ pc[r] = s.pc
                 /\ attempt[r] = s.attempt
                 /\ outline[r] = s.outline
                 /\ validation[r] = s.validation
                 /\ result[r] = s.result
                 /\ error[r] = s.error
                 /\ notices[r] = s.notices
        ELSE /\ calls[r] = <<>>
             /\ attempt[r] = 0
             /\ outline[r] = None
             /\ validation[r] = None
             /\ result[r] = None
             /\ error[r] = None

\* C10 witness: two runs of the same agent, on different topics, are both
\* suspended: run 1 in its second attempt after a rejection, run 2 in its
\* first attempt, which was invoked after run 1 was rejected
C10_Witness ==
    /\ agent[1] = agent[2]
    /\ topic[1] # topic[2]
    /\ pc[1] = "validate_outline"
    /\ attempt[1] = 1
    /\ pc[2] = "validate_outline"
    /\ attempt[2] = 0
    /\ outline[1] # outline[2]

\* the places of the calls of run r that have no answer yet
Outstanding(r) == {i \in 1 .. Len(calls[r]) : calls[r][i].ret = Pending}

\* C11 (sequential port use): a run has at most one call outstanding; every
\* call but its last one has returned or failed, so a call is issued only
\* after the one before it was answered; and the run is suspended exactly
\* when its last call is outstanding, on the await of that call.
C11_SequentialPort ==
    \A r \in Runs :
        LET n == Len(calls[r]) IN
        /\ Cardinality(Outstanding(r)) <= 1
        /\ \A i \in 1 .. (n - 1) : calls[r][i].ret # Pending
        /\ pc[r] \in Awaiting <=> Outstanding(r) = {n} /\ n >= 1
        /\ pc[r] \in Awaiting => calls[r][n].op = pc[r]

\* C11 witness: the validate_outline call of the second attempt is the only
\* outstanding call; the three calls before it have returned
C11_Witness ==
    /\ Len(calls[1]) = 4
    /\ pc[1] = "validate_outline"
    /\ Outstanding(1) = {4}
    /\ \A i \in 1 .. 3 : Returned(calls[1][i])

\* the "Error in workflow" notices of run r
ErrorNotices(r) ==
    SelectSeq(notices[r], LAMBDA x : x.line = "Error in workflow")

\* run r has returned the failure text of the exhausted budget
BudgetExhausted(r) ==
    /\ pc[r] = "returned"
    /\ GenerateCalls(r) = <<>>
    /\ result[r] = FailureText(validation[r])

\* C12 (asymmetric failure channels): a run that raised the error of a
\* failed port call has printed exactly one "Error in workflow" notice, as
\* its last notice and with the text of that error, so the notice is out
\* when the caller gets the error; a run that has not raised has printed
\* none; and a run whose budget is exhausted has returned the failure text,
\* has raised nothing and has printed no such notice.
C12_FailureChannels ==
    \A r \in Runs :
        /\ pc[r] = "raised" =>
              /\ error[r] # None
              /\ Len(ErrorNotices(r)) = 1
              /\ notices[r][Len(notices[r])] = ErrorNotice(error[r].error)
        /\ pc[r] # "raised" => ErrorNotices(r) = <<>>
        /\ (MaxRetriesOf(r) >= 1 /\ attempt[r] = MaxRetriesOf(r)) =>
              /\ BudgetExhausted(r)
              /\ error[r] = None
              /\ ErrorNotices(r) = <<>>
              /\ NoFailure(r)

\* C12 witness: generate_document failed after an accepted second attempt
\* and run raised, its last notice being the error notice
C12_Witness ==
    /\ pc[1] = "raised"
    /\ Len(calls[1]) = 5
    /\ calls[1][5].op = "generate_document"
    /\ notices[1][Len(notices[1])] = ErrorNotice("APIConnectionError")

\* the three outcomes of a run
Done(r) ==
    /\ pc[r] = "returned"
    /\ Len(GenerateCalls(r)) = 1
    /\ Returned(GenerateCalls(r)[1])
    /\ result[r] = <<GenerateCalls(r)[1].ret.content>>

PortErrorRaised(r) ==
    /\ pc[r] = "raised"
    /\ error[r] # None
    /\ result[r] = None

Ended(r) == pc[r] \in {"returned", "raised"}

OutcomeCount(r) ==
    Cardinality({x \in {"done", "failed", "error"} :
                    \/ x = "done" /\ Done(r)
                    \/ x = "failed" /\ BudgetExhausted(r)
                    \/ x = "error" /\ PortErrorRaised(r)})

\* C13 (termination): with max_retries >= 1, when the port answers every
\* call, an invoked run eventually ends; a run has never made more than
\* 2 * max_retries + 1 port calls; a run that ended has exactly one of the
\* outcomes done, budget exhausted and port error, and has no call
\* outstanding; and once a run has ended it makes no call and stays ended.
C13_Termination ==
    /\ [](\A r \in Runs :
            MaxRetriesOf(r) >= 1 =>
                /\ Len(calls[r]) <= 2 * MaxRetriesOf(r) + 1
                /\ Ended(r) => (OutcomeCount(r) = 1 /\ Outstanding(r) = {})
                /\ ~Ended(r) => OutcomeCount(r) = 0)
    /\ [][\A r \in Runs :
            Ended(r) => (calls'[r] = calls[r] /\ pc'[r] = pc[r]
                         /\ result'[r] = result[r] /\ error'[r] = error[r])]_vars
    /\ \A r \in Runs :
            (Started(r) /\ MaxRetriesOf(r) >= 1) ~> Ended(r)

\* C13 witness: with max_retries = 3 a run has made 2 * 3 + 1 calls and is done
C13_Witness ==
    /\ MaxRetriesOf(1) = 3
    /\ Len(calls[1]) = 7
    /\ Done(1)

\* C14 (generation arguments come from the run, for every max_retries the
\* constructor accepts): every generate_document call is made with an
\* outline that a create_outline call of the same run returned and with a
\* verdict that a validate_outline call of the same run returned, never
\* with outline = None and validation = None.
C14_GenerateArgsFromRun ==
    \A r \in Runs :
        LET C == CreateCalls(r)
            V == ValidateCalls(r)
            G == GenerateCalls(r)
        IN  \A n \in 1 .. Len(G) :
                /\ G[n].args.outline # None
                /\ G[n].args.validation # None
                /\ \E j \in 1 .. Len(C) : C[j].ret = G[n].args.outline
                /\ \E j \in 1 .. Len(V) : V[j].ret = G[n].args.validation

\* C15 (feedback is not accumulated): the feedback of the create_outline
\* call of an attempt i > 0 is the rendering of the missing_elements of the
\* verdict of attempt i-1, a newline, and the rendering of its suggestions,
\* and nothing else; two drafts that follow equal verdicts get equal
\* feedback, whatever the verdicts before them were.
C15_FeedbackNotAccumulated ==
    \A r \in Runs :
        LET C == CreateCalls(r)
            V == ValidateCalls(r)
        IN  \A j \in 2 .. Len(C) :
                /\ C[j].args.feedback =
                      ListStr(V[j - 1].ret.missing_elements) \o <<"\n">>
                      \o ListStr(V[j - 1].ret.suggestions)
                /\ \A k \in 2 .. Len(C) :
                      V[j - 1].ret = V[k - 1].ret =>
                          C[j].args.feedback = C[k].args.feedback

\* C15 witness: the first verdict misses "examples", the second misses
\* nothing, and the feedback of the third draft has no "examples" in it
C15_Witness ==
    /\ Len(CreateCalls(1)) = 3
    /\ ValidateCalls(1)[1].ret.missing_elements = <<"examples">>
    /\ ValidateCalls(1)[2].ret.missing_elements = <<>>
    /\ ValidateCalls(1)[2].ret.suggestions # <<>>
    /\ "examples" \notin Tokens(CreateCalls(1)[3].args.feedback)

\* C16 (a feedback clause on every revision): the instructions of a
\* create_outline call contain the feedback clause exactly when the call
\* is not the one of attempt 0; the feedback of an attempt i > 0 is not
\* empty, also when the verdict of attempt i-1 has no missing element and
\* no suggestion.
C16_ClauseOnRevisions ==
    \A r \in Runs :
        LET C == CreateCalls(r) IN
        \A j \in 1 .. Len(C) :
            /\ FeedbackClause \in Tokens(C[j].prompt) <=> C[j].attempt > 0
            /\ C[j].attempt = j - 1
            /\ j > 1 =>
                  /\ C[j].args.feedback # <<>>
                  /\ Occurs(<<FeedbackClause>> \o C[j].args.feedback,
                            C[j].prompt)

\* C16 witness: a revision is requested after a rejecting verdict that has
\* no missing element and no suggestion, and its instructions have the clause
C16_Witness ==
    /\ Len(CreateCalls(1)) = 2
    /\ ValidateCalls(1)[1].ret.missing_elements = <<>>
    /\ ValidateCalls(1)[1].ret.suggestions = <<>>
    /\ CreateCalls(1)[2].args.feedback = <<"[", "]", "\n", "[", "]">>
    /\ FeedbackClause \in Tokens(CreateCalls(1)[2].prompt)

\* C17 (inputs and configuration are left unchanged): no step changes
\* max_retries or messages of an agent, nor the arguments of a run that is
\* invoked; every create_outline call of a run gets the topic and the
\* requirements passed to run and every validate_outline call gets the
\* criteria passed to run, at every attempt and after any verdicts.
C17_InputsUnchanged ==
    /\ [][/\ max_retries' = max_retries
          /\ messages' = messages
          /\ agent' = agent
          /\ \A r \in Runs :
                Started(r) => /\ topic'[r] = topic[r]
                              /\ requirements'[r] = requirements[r]
                              /\ criteria'[r] = criteria[r]]_vars
    /\ [](\A r \in Runs : \A i \in 1 .. Len(calls[r]) :
            LET c == calls[r][i] IN
            /\ c.op = "create_outline" =>
                  /\ c.args.topic = topic[r]
                  /\ c.args.requirements = requirements[r]
            /\ c.op = "validate_outline" => c.args.criteria = criteria[r])

\* C17 witness: the third draft is requested, after two different verdicts,
\* with the topic and the requirements of the first one
C17_Witness ==
    /\ Len(CreateCalls(1)) = 3
    /\ ValidateCalls(1)[1].ret # ValidateCalls(1)[2].ret
    /\ CreateCalls(1)[3].args.topic = "Previous work"
    /\ CreateCalls(1)[3].args.topic = CreateCalls(1)[1].args.topic
    /\ CreateCalls(1)[3].args.feedback # CreateCalls(1)[2].args.feedback

\* what follows the first occurrence of the token x in text, if any
RECURSIVE After(_, _)
After(x, text) ==
    IF text = <<>> THEN <<>>
    ELSE IF text[1] = x THEN Tail(text)
    ELSE After(x, Tail(text))

\* C18 (the verdict steers generation only through its suggestions): the
\* instructions of a generate_document call contain the suggestions clause
\* exactly when the verdict passed is not None and has suggestions; the
\* suggestions then follow the clause, all of them and in list order; and
\* the instructions are those built for any verdict with the same
\* suggestions, whatever its missing_elements and meets_requirements, and
\* without suggestions those built for no verdict.
C18_SuggestionsOnly ==
    \A r \in Runs :
        LET G == GenerateCalls(r) IN
        \A n \in 1 .. Len(G) :
            LET o == G[n].args.outline
                v == G[n].args.validation
                s == IF v = None THEN <<>> ELSE v.suggestions
            IN  /\ SuggestionsClause \in Tokens(G[n].prompt) <=> s # <<>>
                /\ s # <<>> =>
                      SelectSeq(After(SuggestionsClause, G[n].prompt),
                                LAMBDA x : x # "- ") = s
                /\ \A w \in Verdicts :
                      w.suggestions = s =>
                          GenerateDocumentPrompt(o, w) = G[n].prompt
                /\ s = <<>> => GenerateDocumentPrompt(o, None) = G[n].prompt

\* C18 witness: generate_document is called with an accepting verdict that
\* has a missing element and two suggestions
C18_Witness ==
    /\ Len(GenerateCalls(1)) = 1
    /\ GenerateCalls(1)[1].args.validation # None
    /\ GenerateCalls(1)[1].args.validation.meets_requirements
    /\ GenerateCalls(1)[1].args.validation.missing_elements = <<"examples">>
    /\ GenerateCalls(1)[1].args.validation.suggestions =
          <<"add case study", "cite sources">>
    /\ SuggestionsClause \in Tokens(GenerateCalls(1)[1].prompt)

TypeOK ==
    /\ \A r \in Runs : pc[r] \in Awaiting \cup {"idle", "absent", "returned", "raised"}
    /\ \A r \in Runs : attempt[r] \in 0 .. (MaxRetriesBound + 1)

====
